---- MODULE Spec2Model ----
(***************************************************************************)
(* Chunked file upload: the browser-side upload session                    *)
(* (FileUploadService.doUpload, request/response variant) and the          *)
(* server-side staging registry (NodeFileUploadServer / NodeFileUpload).   *)
(*                                                                         *)
(* Sizes are counted in units of 32 KiB; the units of a file are named by  *)
(* their offsets, so the content of a slice [a, b) is <<a, .., b-1>>.      *)
(* The base64 text that carries a chunk on the wire is decoded by the      *)
(* server chunk by chunk; a chunk is carried here as the bytes it decodes  *)
(* to.                                                                     *)
(*                                                                         *)
(* The transport delivers the calls of one client in dispatch order, and   *)
(* a handler runs synchronously up to its first await: the start of a      *)
(* handler is therefore part of the step that dispatches the call.  The    *)
(* file-system operations a handler awaits complete later, in any order.   *)
(***************************************************************************)
EXTENDS Integers, Sequences, FiniteSets, TLC

\* ------------------------------------------------------------------ bounds
\* entries of one upload call, bytes of a file, injected failures, and
\* calls of the direct caller of the server
MaxEntries == 2
MaxFileSize == 5
MaxFaults == 2
MaxCalls == 3
\* nodes of a dropped tree, and names a node can have
MaxNodes == 3
MaxNames == 2
\* frames the server sends on one socket
MaxFrames == 2

\* const maxChunkSize = 64 * 1024, with 32 KiB as the unit of size
maxChunkSize == 2

VARIABLES
    \* client session (one doUpload call)
    entries,            \* context.entries: the size of each indexed file
    pc,                 \* where doUpload is suspended
    cur,                \* index of the entry of the for loop
    id,                 \* let id: 0 is undefined
    readBytes,          \* let readBytes
    someAppendFailed,   \* let someAppendFailed: "none" is undefined
    promises,           \* const promises: state of each pushed promise
    cancelled,          \* token.isCancellationRequested
    error,              \* reason the promise of doUpload rejected with
    uploaded,           \* result.uploaded
    doneWork,           \* let done: the sizes of the entries completed
    reports,            \* the done of every progress.report so far
    \* entry indexer (one indexDataTransfer call)
    tree,               \* the dropped items and what is below them
    estate,             \* per tree node, the promise of its indexEntry call
                        \* and the targetUri it was called with
    totalSize,          \* context.totalSize
    \* socket variant of the session
    readyState,         \* socket.readyState: 0 connecting, 1 open, 2 closing,
                        \* 3 closed
    bufferedAmount,     \* socket.bufferedAmount
    sent,               \* the frames socket.send was called with, in order
    deferredUpload,     \* state of deferredUpload.promise
    nframes,            \* frames the server has sent so far
    firstEvent,         \* the first of: an {ok: true} frame, an {error}
                        \* frame, a socket error, a close, a cancellation
    \* server
    uploads,            \* NodeFileUploadServer.uploads: the keys of the map
    objs,               \* the NodeFileUpload objects, by id
    nextId,             \* ids handed out so far + 1
    tasks,              \* file-system operations the handlers are awaiting
    files,              \* the file system: path -> file
    acks,               \* responses on their way to the caller, in order
    \* environment and history
    faults,             \* injected failures so far
    ncalls,             \* direct API calls made so far (server specification)
    calls,              \* per entry, the calls the session dispatched
    closed,             \* ids a close call was dispatched for
    cancelOpenId,       \* id of the open that had returned, with no append
                        \* dispatched yet, when cancellation was requested
    firstFailure,       \* error of the first failed append acknowledgement
    ackedBytes          \* bytes of the chunks acknowledged with success
                        \* the session observed: "none" before it

indexVars == <<tree, estate, totalSize>>
socketVars == <<readyState, bufferedAmount, sent, deferredUpload, nframes,
                firstEvent>>
clientVars == <<entries, pc, cur, id, readBytes, someAppendFailed, promises,
                cancelled, error, uploaded, doneWork, reports, indexVars,
                socketVars>>
serverVars == <<uploads, objs, nextId, tasks, files, acks>>
histVars == <<faults, ncalls, calls, closed, cancelOpenId, firstFailure,
              ackedBytes>>
vars == <<clientVars, serverVars, histVars>>

\* ------------------------------------------------------------- file system
IdBound == MaxEntries + MaxCalls
\* a token that open never hands out
BogusId == IdBound + 1
Ids == 1..BogusId
Uris == 1..MaxEntries

\* this.uploadPath = path.join(path.dirname(fsPath), this.id)
UploadPath(i) == <<"upload", i>>
\* FileUri.fsPath(uri)
FsPath(uri) == <<"file", uri>>
NoPath == <<"none", 0>>
Paths == {UploadPath(i) : i \in Ids} \cup {FsPath(u) : u \in Uris}

Absent == [exists |-> FALSE, data |-> <<>>]
File(d) == [exists |-> TRUE, data |-> d]

\* fs.outputFile(path, content): create or truncate
OutputFile(fs, p, content) == [fs EXCEPT ![p] = File(content)]
\* fs.appendFile(path, content): creates the file when it does not exist
AppendFile(fs, p, content) == [fs EXCEPT ![p] = File(@.data \o content)]
\* fs.move(src, dst, {overwrite: true})
Move(fs, src, dst) == [fs EXCEPT ![dst] = fs[src], ![src] = Absent]
\* fs.unlink(path)
Unlink(fs, p) == [fs EXCEPT ![p] = Absent]

\* ------------------------------------------------------------------ server
Srv == [uploads |-> uploads, objs |-> objs, nextId |-> nextId,
        tasks |-> tasks, acks |-> acks]
SetSrv(s) ==
    /\ uploads' = s.uploads
    /\ objs' = s.objs
    /\ nextId' = s.nextId
    /\ tasks' = s.tasks
    /\ acks' = s.acks

Task(op, i, tag, path, content, done) ==
    [op |-> op, id |-> i, tag |-> tag, path |-> path, content |-> content,
     done |-> done]
Ack(op, i, tag, done, ok, err) ==
    [op |-> op, id |-> i, tag |-> tag, done |-> done, ok |-> ok, err |-> err]

\* variant: dispose unlinks the destination path
DisposeUnlinksFsPath(s, i, tag) ==
    IF s.objs[i].renamed
    THEN s
    ELSE [s EXCEPT !.tasks = @ \cup
            {Task("unlink", i, tag, s.objs[i].fsPath, <<>>, FALSE)}]
\* NodeFileUpload.dispose: unlink the temporary file, unless rename has
\* replaced dispose by a no-op
Dispose(s, i, tag) ==
    IF s.objs[i].renamed
    THEN s
    ELSE [s EXCEPT !.tasks = @ \cup
            {Task("unlink", i, tag, UploadPath(i), <<>>, FALSE)}]

\* variant: the lookup is not checked
UploadsGetAlways(s, i) == TRUE
\* this.uploads.get(id) !== undefined
UploadsGet(s, i) == i \in s.uploads

\* the body of NodeFileUploadServer.close
CloseBody(s, i, tag) == IF UploadsGet(s, i) THEN Dispose(s, i, tag) ELSE s

\* variant: every upload is registered for the destination of the first
ServerOpenFirstDestination(s, uri, content, done, tag) ==
    LET i == s.nextId IN
    [s EXCEPT !.nextId = i + 1,
              !.uploads = @ \cup {i},
              !.objs[i] = [fsPath |-> FsPath(1), renamed |-> FALSE],
              !.tasks = @ \cup {Task("create", i, tag, UploadPath(i), content, done)}]
\* NodeFileUploadServer.open, up to the await of upload.create(content)
ServerOpen(s, uri, content, done, tag) ==
    LET i == s.nextId IN
    [s EXCEPT !.nextId = i + 1,
              !.uploads = @ \cup {i},
              !.objs[i] = [fsPath |-> FsPath(uri), renamed |-> FALSE],
              !.tasks = @ \cup {Task("create", i, tag, UploadPath(i), content, done)}]

\* NodeFileUploadServer.append, up to the await of upload.append(content)
ServerAppend(s, i, content, done, tag) ==
    IF ~UploadsGet(s, i)
    THEN [s EXCEPT !.acks = Append(@, Ack("append", i, tag, done, FALSE, "NotFound"))]
    ELSE [s EXCEPT !.tasks = @ \cup
            {Task("append", i, tag, UploadPath(i), content, done)}]

\* NodeFileUploadServer.close: it awaits nothing
ServerClose(s, i, tag) ==
    [CloseBody(s, i, tag) EXCEPT
        !.acks = Append(@, Ack("close", i, tag, FALSE, TRUE, "none"))]

\* which call a task belongs to
CallOp(t) == IF t.op = "create" \/ t.op = "renameOpen" THEN "open" ELSE "append"
RenameOp(t) == IF t.op = "create" THEN "renameOpen" ELSE "renameAppend"

\* variant: rename whatever the done flag
RenameAlways(t) == TRUE
\* if (done) { await upload.rename(); ... }
RenameWanted(t) == t.done

\* the continuation of open/append after the first write has succeeded
AfterWrite(s, t) ==
    IF RenameWanted(t)
    THEN [s EXCEPT !.tasks = (@ \ {t}) \cup
            {Task(RenameOp(t), t.id, t.tag, t.path, <<>>, t.done)}]
    ELSE [s EXCEPT !.tasks = @ \ {t},
                   !.acks = Append(@, Ack(CallOp(t), t.id, t.tag, t.done, TRUE, "none"))]

\* variant: the call of a task that fails is never answered
RejectSilently(s, t, err) == [s EXCEPT !.tasks = @ \ {t}]
\* the call of a task rejects
Reject(s, t, err) ==
    [s EXCEPT !.tasks = @ \ {t},
              !.acks = Append(@, Ack(CallOp(t), t.id, t.tag, t.done, FALSE, err))]

\* fs.outputFile of NodeFileUpload.create completes
CreateDone(t) ==
    /\ t \in tasks /\ t.op = "create"
    /\ files' = OutputFile(files, t.path, t.content)
    /\ SetSrv(AfterWrite(Srv, t))
    /\ UNCHANGED <<clientVars, histVars>>

\* fs.appendFile of NodeFileUpload.append completes
AppendDone(t) ==
    /\ t \in tasks /\ t.op = "append"
    /\ files' = AppendFile(files, t.path, t.content)
    /\ SetSrv(AfterWrite(Srv, t))
    /\ UNCHANGED <<clientVars, histVars>>

\* the write of create or append fails with an error of the file system:
\* the call rejects with it
WriteFailWith(t, err) ==
    /\ t \in tasks /\ t.op \in {"create", "append"}
    /\ faults < MaxFaults
    /\ faults' = faults + 1
    /\ SetSrv(Reject(Srv, t, err))
    /\ UNCHANGED <<clientVars, files, ncalls, calls, closed, cancelOpenId,
                   firstFailure, ackedBytes>>

WriteFail(t) == WriteFailWith(t, "WriteFailure")

\* this.dispose = () => Promise.resolve()
Renamed(o) == [o EXCEPT !.renamed = TRUE]

\* fs.move of NodeFileUpload.rename completes; then dispose is replaced,
\* this.close(upload.id) runs and the call returns
RenameDone(t) ==
    /\ t \in tasks /\ t.op \in {"renameOpen", "renameAppend"}
    /\ files[t.path].exists
    /\ files' = Move(files, t.path, objs[t.id].fsPath)
    /\ LET s1 == [Srv EXCEPT !.objs[t.id] = Renamed(@), !.tasks = @ \ {t}]
           s2 == CloseBody(s1, t.id, t.tag)
       IN SetSrv([s2 EXCEPT !.acks = Append(@, Ack(CallOp(t), t.id, t.tag, t.done, TRUE, "none"))])
    /\ UNCHANGED <<clientVars, histVars>>

\* fs.move fails because the temporary file is gone
RenameNoSource(t) ==
    /\ t \in tasks /\ t.op \in {"renameOpen", "renameAppend"}
    /\ ~files[t.path].exists
    /\ SetSrv(Reject(Srv, t, "RenameFailure"))
    /\ UNCHANGED <<clientVars, files, histVars>>

\* fs.move fails for another reason (the destination cannot be replaced)
RenameFail(t) ==
    /\ t \in tasks /\ t.op \in {"renameOpen", "renameAppend"}
    /\ faults < MaxFaults
    /\ faults' = faults + 1
    /\ SetSrv(Reject(Srv, t, "RenameFailure"))
    /\ UNCHANGED <<clientVars, files, ncalls, calls, closed, cancelOpenId,
                   firstFailure, ackedBytes>>

\* fs.unlink of NodeFileUpload.dispose completes; its error is swallowed
UnlinkDone(t) ==
    /\ t \in tasks /\ t.op = "unlink"
    /\ files' = Unlink(files, t.path)
    /\ tasks' = tasks \ {t}
    /\ UNCHANGED <<clientVars, uploads, objs, nextId, acks, histVars>>

\* ------------------------------------------------------------------ client
Min(a, b) == IF a < b THEN a ELSE b
\* file.slice(a, b): the bytes at offsets a .. b-1
Slice(a, b) == [k \in 1..(b - a) |-> a + k - 1]

\* readFileSlice(file, read), when the FileReader does not fail
ReadFileSlice(size, read) ==
    IF size = 0 /\ read = 0
    THEN [ok |-> TRUE, content |-> <<>>, read |-> read]
    ELSE IF size - read = 0
    THEN [ok |-> FALSE, content |-> <<>>, read |-> read]
    ELSE LET n == Min(maxChunkSize, size - read)
         IN [ok |-> TRUE, content |-> Slice(read, read + n), read |-> read + n]

Call(op, content, done) == [op |-> op, content |-> content, done |-> done]

RECURSIVE Sum(_)
Sum(sizes) == IF sizes = <<>> THEN 0 ELSE Head(sizes) + Sum(Tail(sizes))
\* context.totalSize: indexFile adds file.size for every entry it pushes
Total == Sum(entries)

\* fileSlice.read of the k-th slice of a file
SliceRead(size, k) == Min(k * maxChunkSize, size)

\* progress.report({ work: { done: d, total } }) for each d, in order
Report(ds) ==
    /\ reports' = reports \o ds
    /\ UNCHANGED doneWork

\* variant: done is not advanced when an entry completes
ReportEntryDoneNoAdd(ds) ==
    /\ doneWork' = doneWork
    /\ reports' = reports \o ds \o
                      <<doneWork, IF cur < Len(entries) THEN doneWork ELSE Total>>
\* done += file.size; progress.report (line 162), then the report that
\* opens the next entry (line 122), or the one after the loop (line 169)
ReportEntryDone(ds) ==
    LET d == doneWork + entries[cur] IN
    /\ doneWork' = d
    /\ reports' = reports \o ds \o
                      <<d, IF cur < Len(entries) THEN d ELSE Total>>

\* ids of the close calls that turn server state s into server state s2
ClosesIn(s, s2) ==
    {s2.acks[k].id : k \in {j \in (Len(s.acks) + 1)..Len(s2.acks) :
                                s2.acks[j].op = "close"}}

\* variant: no finally block
FinallyNoClose(s, i) == s
\* finally { if (id !== undefined) { this.uploadServer.close(id); } }
FinallyClose(s, i) == IF i # 0 THEN ServerClose(s, i, 0) ELSE s

\* the locals of doUpload after a step, with the finally block run for
\* closeId when the step leaves the try block
Settle(s, p, c, i, rb, saf, pr, err, leaves, closeId) ==
    LET s2 == IF leaves THEN FinallyClose(s, closeId) ELSE s IN
    /\ pc' = p
    /\ cur' = c
    /\ id' = i
    /\ readBytes' = rb
    /\ someAppendFailed' = saf
    /\ promises' = pr
    /\ error' = err
    /\ SetSrv(s2)
    /\ closed' = closed \cup ClosesIn(s, s2)
    /\ UNCHANGED <<entries, uploaded, cancelled, indexVars, socketVars, files,
                   faults, ncalls, cancelOpenId>>

\* the first failure of an append that the session is told of
Observe(a) ==
    firstFailure' = IF firstFailure = "none" /\ a.op = "append" /\ ~a.ok
                    THEN a.err ELSE firstFailure

\* the bytes of the chunk that a successful response of open or append
\* acknowledges
Acked(a) ==
    ackedBytes' = ackedBytes +
        (IF a.ok /\ a.op \in {"open", "append"}
         THEN SliceRead(entries[cur], a.tag) - SliceRead(entries[cur], a.tag - 1)
         ELSE 0)

\* an exception leaves the try block: finally, then the promise rejects
Abort(s, i, saf, pr, err) ==
    Settle(s, "rejected", cur, i, readBytes, saf, pr, err, TRUE, i)

\* await Promise.all(promises) has resolved: finally, then the next entry
\* of the for loop, or return result
FinishEntry(s, i, rb, saf, pr) ==
    IF cur < Len(entries)
    THEN Settle(s, "read", cur + 1, 0, 0, "none", <<>>, error, TRUE, i)
    ELSE Settle(s, "resolved", cur, i, rb, saf, pr, error, TRUE, i)

\* doUpload is called: no entries returns at once, else the first entry
DoUpload ==
    /\ pc = "start"
    /\ IF Len(entries) = 0
       THEN Settle(Srv, "resolved", cur, id, readBytes, someAppendFailed,
                   promises, error, FALSE, 0)
            /\ Report(<<>>)
       ELSE Settle(Srv, "read", 1, 0, 0, "none", <<>>, error, FALSE, 0)
            /\ Report(<<doneWork>>)
    /\ UNCHANGED <<calls, firstFailure, ackedBytes>>

\* checkCancelled(token) throws
CheckCancelled == cancelled

\* variant: > for >=
IsLastNever(read, size) == read > size
\* readBytes >= file.size
IsLast(read, size) == read >= size

\* variant: the captured error is not looked at
ThrowsAppendErrorNever(saf) == FALSE
\* if (someAppendFailed) { throw someAppendFailed; }
ThrowsAppendError(saf) == saf # "none"

\* await readFileSlice resolves: lines 131-159 up to the next await
ReadOk ==
    /\ pc = "read"
    /\ LET size == entries[cur]
           r == ReadFileSlice(size, readBytes)
           last == IsLast(r.read, size)
       IN
       /\ r.ok
       /\ IF ThrowsAppendError(someAppendFailed)
          THEN Abort(Srv, id, someAppendFailed, promises, someAppendFailed)
               /\ UNCHANGED calls
          ELSE IF CheckCancelled
          THEN Abort(Srv, id, someAppendFailed, promises, "cancelled")
               /\ UNCHANGED calls
          ELSE IF id = 0
          THEN /\ Settle(ServerOpen(Srv, cur, r.content, last, 1),
                         "open", cur, id, r.read, someAppendFailed, promises,
                         error, FALSE, 0)
               /\ calls' = [calls EXCEPT ![cur] =
                              Append(@, Call("open", r.content, last))]
          ELSE /\ Settle(ServerAppend(Srv, id, r.content, last, Len(promises) + 2),
                         IF r.read < size THEN "read" ELSE "waitAll",
                         cur, id, r.read, someAppendFailed,
                         Append(promises, "pending"), error, FALSE, 0)
               /\ calls' = [calls EXCEPT ![cur] =
                              Append(@, Call("append", r.content, last))]
    /\ Report(<<>>)
    /\ UNCHANGED <<firstFailure, ackedBytes>>

\* reader.onerror: await readFileSlice rejects
ReadFail ==
    /\ pc = "read"
    /\ entries[cur] > 0
    /\ faults < MaxFaults
    /\ faults' = faults + 1
    /\ LET s2 == FinallyClose(Srv, id) IN
       /\ SetSrv(s2)
       /\ closed' = closed \cup ClosesIn(Srv, s2)
    /\ pc' = "rejected"
    /\ error' = "ReadFailure"
    /\ UNCHANGED <<entries, cur, id, readBytes, someAppendFailed, promises,
                   cancelled, uploaded, doneWork, reports, indexVars,
                   socketVars, files, ncalls, calls, cancelOpenId,
                   firstFailure, ackedBytes>>

Popped == [Srv EXCEPT !.acks = Tail(@)]

\* the response of open arrives: lines 137-159 up to the next await
OpenAck ==
    /\ pc = "open"
    /\ acks # <<>>
    /\ Head(acks).op = "open"
    /\ LET a == Head(acks) IN
       IF ~a.ok
       THEN Abort(Popped, 0, someAppendFailed, promises, a.err)
            /\ Report(<<>>)
       ELSE IF CheckCancelled
       THEN Abort(Popped, a.id, someAppendFailed, promises, "cancelled")
            /\ Report(<<>>)
       ELSE IF readBytes < entries[cur]
       THEN Settle(Popped, "read", cur, a.id, readBytes, someAppendFailed,
                   promises, error, FALSE, 0)
            /\ Report(<<doneWork + readBytes>>)
       ELSE FinishEntry(Popped, a.id, readBytes, someAppendFailed, promises)
            /\ ReportEntryDone(<<doneWork + readBytes>>)
    /\ Acked(Head(acks))
    /\ UNCHANGED <<calls, firstFailure>>

\* the response of an append arrives while doUpload is running: the
\* callbacks of lines 146-157, and Promise.all when doUpload awaits it
AppendAck ==
    /\ pc \in {"read", "waitAll"}
    /\ acks # <<>>
    /\ Head(acks).op = "append"
    /\ LET a == Head(acks)
           fulfilled == a.ok /\ ~CheckCancelled
           saf == IF a.ok THEN someAppendFailed ELSE a.err
           pr == [promises EXCEPT ![a.tag - 1] =
                     IF fulfilled THEN "fulfilled" ELSE "rejected"]
           ds == IF fulfilled
                 THEN <<doneWork + SliceRead(entries[cur], a.tag)>>
                 ELSE <<>>
       IN
       IF pc = "read"
       THEN Settle(Popped, pc, cur, id, readBytes, saf, pr, error, FALSE, 0)
            /\ Report(ds)
       ELSE IF ~fulfilled
       THEN Abort(Popped, id, saf, pr, IF a.ok THEN "cancelled" ELSE a.err)
            /\ Report(ds)
       ELSE IF \A k \in 1..Len(pr) : pr[k] = "fulfilled"
       THEN FinishEntry(Popped, id, readBytes, saf, pr)
            /\ ReportEntryDone(ds)
       ELSE Settle(Popped, pc, cur, id, readBytes, saf, pr, error, FALSE, 0)
            /\ Report(ds)
    /\ Observe(Head(acks))
    /\ Acked(Head(acks))
    /\ UNCHANGED calls

\* a response doUpload is not waiting for: of a close (its promise is
\* dropped), or of an append after doUpload has settled, whose callback of
\* lines 146-153 still runs
OtherAck ==
    /\ pc \in {"read", "open", "waitAll", "resolved", "rejected"}
    /\ acks # <<>>
    /\ \/ Head(acks).op = "close"
       \/ Head(acks).op = "append" /\ pc \in {"resolved", "rejected"}
    /\ acks' = Tail(acks)
    /\ LET a == Head(acks) IN
       IF a.op = "append" /\ a.ok /\ ~CheckCancelled
       THEN Report(<<doneWork + SliceRead(entries[cur], a.tag)>>)
       ELSE Report(<<>>)
    /\ Acked(Head(acks))
    /\ UNCHANGED <<entries, pc, cur, id, readBytes, someAppendFailed, promises,
                   cancelled, error, uploaded, indexVars, socketVars, uploads,
                   objs, nextId, tasks, files, faults, ncalls, calls, closed,
                   cancelOpenId, firstFailure>>

\* the open of the current entry has returned and no append was dispatched
OpenReturned ==
    /\ pc \in {"read", "open"}
    /\ Len(calls[cur]) = 1
    /\ entries[cur] > maxChunkSize
    /\ \/ id # 0
       \/ \E k \in 1..Len(acks) : acks[k].op = "open" /\ acks[k].ok

\* the user cancels the progress: cancellationSource.cancel()
Cancel ==
    /\ pc \in {"start", "read", "open", "waitAll"}
    /\ ~cancelled
    /\ cancelled' = TRUE
    /\ cancelOpenId' = IF pc # "start" /\ OpenReturned
                       THEN (IF id # 0 THEN id
                             ELSE acks[CHOOSE k \in 1..Len(acks) :
                                         acks[k].op = "open" /\ acks[k].ok].id)
                       ELSE 0
    /\ UNCHANGED <<entries, pc, cur, id, readBytes, someAppendFailed, promises,
                   error, uploaded, doneWork, reports, indexVars, socketVars,
                   serverVars, faults, ncalls, calls, closed, firstFailure,
                   ackedBytes>>

\* ------------------------------------------------------------ specification
EntryLists == UNION {[1..n -> 0..MaxFileSize] : n \in 0..MaxEntries}

\* no socket has been made
SocketIdle ==
    /\ readyState = 3
    /\ bufferedAmount = 0
    /\ sent = <<>>
    /\ deferredUpload = "none"
    /\ nframes = 0
    /\ firstEvent = "none"

\* no drop is being indexed
IndexerIdle ==
    /\ tree = <<>>
    /\ estate = <<>>
    /\ totalSize = 0

InitServerState ==
    /\ uploads = {}
    /\ objs = [i \in Ids |-> [fsPath |-> NoPath, renamed |-> FALSE]]
    /\ nextId = 1
    /\ tasks = {}
    /\ files = [p \in Paths |-> Absent]
    /\ acks = <<>>

Init ==
    /\ entries \in EntryLists
    /\ pc = "start"
    /\ cur = 0
    /\ id = 0
    /\ readBytes = 0
    /\ someAppendFailed = "none"
    /\ promises = <<>>
    /\ cancelled = FALSE
    /\ error = "none"
    /\ uploaded = <<>>
    /\ doneWork = 0
    /\ reports = <<>>
    /\ IndexerIdle
    /\ SocketIdle
    /\ InitServerState
    /\ faults = 0
    /\ ncalls = 0
    /\ calls = [e \in 1..Len(entries) |-> <<>>]
    /\ closed = {}
    /\ cancelOpenId = 0
    /\ firstFailure = "none"
    /\ ackedBytes = 0

Next ==
    \/ DoUpload
    \/ ReadOk
    \/ ReadFail
    \/ OpenAck
    \/ AppendAck
    \/ OtherAck
    \/ Cancel
    \/ \E t \in tasks : CreateDone(t)
    \/ \E t \in tasks : AppendDone(t)
    \/ \E t \in tasks : WriteFail(t)
    \/ \E t \in tasks : RenameDone(t)
    \/ \E t \in tasks : RenameNoSource(t)
    \/ \E t \in tasks : RenameFail(t)
    \/ \E t \in tasks : UnlinkDone(t)

Spec == Init /\ [][Next]_vars

\* The same session when every file read and every server call completes:
\* the FileReader fires load or error, the file system completes every
\* operation the server has started, and every response is delivered.
FileReadCompletes == ReadOk \/ ReadFail
ServerCallCompletes ==
    \E t \in tasks :
        \/ CreateDone(t)
        \/ AppendDone(t)
        \/ RenameDone(t)
        \/ RenameNoSource(t)
        \/ UnlinkDone(t)
ResponseDelivered == OpenAck \/ AppendAck \/ OtherAck
Fairness ==
    /\ WF_vars(DoUpload)
    /\ WF_vars(FileReadCompletes)
    /\ WF_vars(ServerCallCompletes)
    /\ WF_vars(ResponseDelivered)
SpecLive == Init /\ [][Next]_vars /\ Fairness

\* ------------------------------------------- the server called directly
\* A caller of the FileUploadServer interface that makes any calls, with
\* the ids open has handed out so far or with a token of its own, all for
\* one destination.  The responses stay in acks, in the order in which the
\* calls settled.
ApiUris == {1}
Contents == {<<0>>}
KnownIds == (1..(nextId - 1)) \cup {BogusId}

ApiCall(s2) ==
    /\ pc = "api"
    /\ ncalls < MaxCalls
    /\ ncalls' = ncalls + 1
    /\ SetSrv(s2)
    /\ closed' = closed \cup ClosesIn(Srv, s2)
    /\ UNCHANGED <<clientVars, files, faults, calls, cancelOpenId,
                   firstFailure, ackedBytes>>

ApiOpen(uri, content, done) ==
    ApiCall(ServerOpen(Srv, uri, content, done, ncalls + 1))
ApiAppend(i, content, done) ==
    ApiCall(ServerAppend(Srv, i, content, done, ncalls + 1))
ApiClose(i) ==
    ApiCall(ServerClose(Srv, i, ncalls + 1))

InitServer ==
    /\ entries = <<>>
    /\ pc = "api"
    /\ cur = 0
    /\ id = 0
    /\ readBytes = 0
    /\ someAppendFailed = "none"
    /\ promises = <<>>
    /\ cancelled = FALSE
    /\ error = "none"
    /\ uploaded = <<>>
    /\ doneWork = 0
    /\ reports = <<>>
    /\ IndexerIdle
    /\ SocketIdle
    /\ InitServerState
    /\ faults = 0
    /\ ncalls = 0
    /\ calls = <<>>
    /\ closed = {}
    /\ cancelOpenId = 0
    /\ firstFailure = "none"
    /\ ackedBytes = 0

NextServer ==
    \/ \E u \in ApiUris, c \in Contents, d \in BOOLEAN : ApiOpen(u, c, d)
    \/ \E i \in KnownIds, c \in Contents, d \in BOOLEAN : ApiAppend(i, c, d)
    \/ \E i \in KnownIds : ApiClose(i)
    \/ \E t \in tasks : CreateDone(t)
    \/ \E t \in tasks : AppendDone(t)
    \/ \E t \in tasks : WriteFail(t)
    \/ \E t \in tasks : RenameDone(t)
    \/ \E t \in tasks : RenameNoSource(t)
    \/ \E t \in tasks : RenameFail(t)
    \/ \E t \in tasks : UnlinkDone(t)

SpecServer == InitServer /\ [][NextServer]_vars

\* ------------------------------------------- one file of four chunks
\* The session uploading one file long enough for two appends to be
\* outstanding while the fourth chunk is read, on a file system whose
\* writes fail with errors that can be told apart.
PipelineFileSize == 3 * maxChunkSize + 1
WriteErrors == {"WriteFailure", "NoSpace"}

InitPipeline ==
    /\ entries = <<PipelineFileSize>>
    /\ pc = "start"
    /\ cur = 0
    /\ id = 0
    /\ readBytes = 0
    /\ someAppendFailed = "none"
    /\ promises = <<>>
    /\ cancelled = FALSE
    /\ error = "none"
    /\ uploaded = <<>>
    /\ doneWork = 0
    /\ reports = <<>>
    /\ IndexerIdle
    /\ SocketIdle
    /\ InitServerState
    /\ faults = 0
    /\ ncalls = 0
    /\ calls = <<<<>>>>
    /\ closed = {}
    /\ cancelOpenId = 0
    /\ firstFailure = "none"
    /\ ackedBytes = 0

NextPipeline ==
    \/ DoUpload
    \/ ReadOk
    \/ ReadFail
    \/ OpenAck
    \/ AppendAck
    \/ OtherAck
    \/ Cancel
    \/ \E t \in tasks : CreateDone(t)
    \/ \E t \in tasks : AppendDone(t)
    \/ \E t \in tasks, err \in WriteErrors : WriteFailWith(t, err)
    \/ \E t \in tasks : RenameDone(t)
    \/ \E t \in tasks : RenameNoSource(t)
    \/ \E t \in tasks : RenameFail(t)
    \/ \E t \in tasks : UnlinkDone(t)

SpecPipeline == InitPipeline /\ [][NextPipeline]_vars

\* ------------------------------------------------------- entry indexer
\* What is dropped is a forest: node k is below node tree[k].parent, 0 for
\* a dropped item.  An item that is no file-system entry (webkitGetAsEntry
\* returns null) has the kind "null".  The nodes of one directory have
\* different names.  A URI is the sequence of the path segments below the
\* URI the drop is made on.
Names == 1..MaxNames
Kinds == {"file", "dir", "null"}
TreeShapes(n) ==
    {t \in [1..n -> [parent : 0..(n - 1), kind : Kinds, name : Names]] :
        /\ \A k \in 1..n :
              /\ t[k].parent < k
              /\ t[k].parent # 0 => t[t[k].parent].kind = "dir"
              /\ t[k].kind = "null" => t[k].parent = 0 /\ t[k].name = 1
        /\ \A j, k \in 1..n :
              (j # k /\ t[j].parent = t[k].parent
                     /\ t[j].kind # "null" /\ t[k].kind # "null")
                  => t[j].name # t[k].name}
Trees == UNION {TreeShapes(n) : n \in 0..MaxNodes}

Nodes == DOMAIN tree
Children(d) == {k \in Nodes : tree[k].parent = d}
\* file.size of the file of a node
FileSize(n) == n

\* new URI(String(targetUri)) of upload
TargetUri == <<>>
\* uri.resolve(name)
Resolve(uri, name) == Append(uri, name)

\* variant: the name of the directory is not resolved
NewTargetUriSame(targetUri, name) == targetUri
\* const newTargetUri = targetUri.resolve(entry.name)
NewTargetUri(targetUri, name) == Resolve(targetUri, name)

EntryState(st, targetUri) == [st |-> st, target |-> targetUri]

\* indexEntry(targetUri, entry, context) up to its first await, with
\* indexDirectoryEntry up to reader.readEntries and indexFileEntry up to
\* entry.file
IndexEntry(targetUri, n) ==
    IF CheckCancelled
    THEN EntryState("rejected", targetUri)
    ELSE IF tree[n].kind = "null"
    THEN EntryState("resolved", targetUri)
    ELSE IF tree[n].kind = "dir"
    THEN EntryState("reading", NewTargetUri(targetUri, tree[n].name))
    ELSE EntryState("pending", targetUri)

\* indexEntries / indexDataTransferItemList: indexEntry for every item;
\* when checkCancelled throws first, the promise the items are awaited
\* through rejects, as it does when an item rejects
IndexEntries(es, targetUri, items) ==
    [n \in DOMAIN es |->
        IF n \notin items THEN es[n]
        ELSE IF CheckCancelled THEN EntryState("rejected", targetUri)
        ELSE IndexEntry(targetUri, n)]

\* Promise.all over promises in the given states
PromiseAll(states) ==
    IF "rejected" \in states THEN "rejected"
    ELSE IF "pending" \in states THEN "pending"
    ELSE "resolved"

\* the promise of indexEntry for node n: of a directory, pending while
\* readEntries is, then Promise.all over what the batches started
RECURSIVE EntryPromise(_)
EntryPromise(n) ==
    LET st == estate[n].st IN
    IF st \in {"pending", "reading"} THEN "pending"
    ELSE IF st \in {"rejected", "failed"} THEN "rejected"
    ELSE IF st = "resolved" THEN "resolved"
    ELSE PromiseAll({EntryPromise(c) :
                        c \in {k \in Children(n) : estate[k].st # "none"}})

\* the promise of indexDataTransfer
IndexPromise ==
    IF pc = "index" THEN "none"
    ELSE IF pc = "rejected" THEN "rejected"
    ELSE PromiseAll({EntryPromise(c) : c \in Children(0)})

\* indexDataTransfer(targetUri, dataTransfer, context) with
\* indexDataTransferItemList, up to await Promise.all(promises)
IndexDataTransfer ==
    /\ pc = "index"
    /\ IF CheckCancelled
       THEN pc' = "rejected" /\ error' = "cancelled" /\ UNCHANGED estate
       ELSE /\ pc' = "indexing"
            /\ estate' = IndexEntries(estate, TargetUri, Children(0))
            /\ UNCHANGED error
    /\ UNCHANGED <<entries, cur, id, readBytes, someAppendFailed, promises,
                   cancelled, uploaded, doneWork, reports, tree, totalSize,
                   socketVars, serverVars, histVars>>

\* the callback of reader.readEntries for directory d: the platform hands
\* over some of the entries it has not handed over yet, none when there is
\* none left
ReadEntries(d, results) ==
    /\ pc = "indexing"
    /\ d \in Nodes
    /\ estate[d].st = "reading"
    /\ LET rest == {k \in Children(d) : estate[k].st = "none"} IN
       /\ results \subseteq rest
       /\ results = {} <=> rest = {}
    /\ estate' = IF ~cancelled /\ results # {}
                 THEN IndexEntries(estate, estate[d].target, results)
                 ELSE [estate EXCEPT ![d].st = "read"]
    /\ UNCHANGED <<entries, pc, cur, id, readBytes, someAppendFailed, promises,
                   cancelled, error, uploaded, doneWork, reports, tree,
                   totalSize, socketVars, serverVars, histVars>>

\* the error callback of reader.readEntries: reject
ReadEntriesFail(d) ==
    /\ pc = "indexing"
    /\ d \in Nodes
    /\ estate[d].st = "reading"
    /\ faults < MaxFaults
    /\ faults' = faults + 1
    /\ estate' = [estate EXCEPT ![d].st = "failed"]
    /\ UNCHANGED <<entries, pc, cur, id, readBytes, someAppendFailed, promises,
                   cancelled, error, uploaded, doneWork, reports, tree,
                   totalSize, socketVars, serverVars, ncalls, calls, closed, cancelOpenId,
                   firstFailure, ackedBytes>>

\* indexFile(targetUri, file, context)
IndexFile(targetUri, n) ==
    /\ entries' = Append(entries, [uri |-> Resolve(targetUri, tree[n].name),
                                   size |-> FileSize(n)])
    /\ totalSize' = totalSize + FileSize(n)

\* the callback of entry.file for the file of node f
FileCallback(f) ==
    /\ pc = "indexing"
    /\ f \in Nodes
    /\ estate[f].st = "pending"
    /\ IndexFile(estate[f].target, f)
    /\ estate' = [estate EXCEPT ![f].st = "resolved"]
    /\ UNCHANGED <<pc, cur, id, readBytes, someAppendFailed, promises,
                   cancelled, error, uploaded, doneWork, reports, tree,
                   socketVars, serverVars, histVars>>

\* the error callback of entry.file: reject
FileFail(f) ==
    /\ pc = "indexing"
    /\ f \in Nodes
    /\ estate[f].st = "pending"
    /\ faults < MaxFaults
    /\ faults' = faults + 1
    /\ estate' = [estate EXCEPT ![f].st = "rejected"]
    /\ UNCHANGED <<entries, pc, cur, id, readBytes, someAppendFailed, promises,
                   cancelled, error, uploaded, doneWork, reports, tree,
                   totalSize, socketVars, serverVars, ncalls, calls, closed, cancelOpenId,
                   firstFailure, ackedBytes>>

\* the user cancels the progress while the drop is being indexed
CancelIndexing ==
    /\ pc = "indexing"
    /\ IndexPromise = "pending"
    /\ ~cancelled
    /\ cancelled' = TRUE
    /\ UNCHANGED <<entries, pc, cur, id, readBytes, someAppendFailed, promises,
                   error, uploaded, doneWork, reports, indexVars, socketVars,
                   serverVars, histVars>>

InitIndex ==
    /\ tree \in Trees
    /\ estate = [n \in DOMAIN tree |-> EntryState("none", TargetUri)]
    /\ totalSize = 0
    /\ entries = <<>>
    /\ pc = "index"
    /\ cur = 0
    /\ id = 0
    /\ readBytes = 0
    /\ someAppendFailed = "none"
    /\ promises = <<>>
    /\ cancelled = FALSE
    /\ error = "none"
    /\ uploaded = <<>>
    /\ doneWork = 0
    /\ reports = <<>>
    /\ SocketIdle
    /\ InitServerState
    /\ faults = 0
    /\ ncalls = 0
    /\ calls = <<>>
    /\ closed = {}
    /\ cancelOpenId = 0
    /\ firstFailure = "none"
    /\ ackedBytes = 0

NextIndex ==
    \/ IndexDataTransfer
    \/ \E d \in Nodes, results \in SUBSET Nodes : ReadEntries(d, results)
    \/ \E d \in Nodes : ReadEntriesFail(d)
    \/ \E f \in Nodes : FileCallback(f)
    \/ \E f \in Nodes : FileFail(f)
    \/ CancelIndexing

SpecIndex == InitIndex /\ [][NextIndex]_vars

\* ------------------------------------------------------ socket variant
\* doUpload over a WebSocket, from the moment the socket is made and its
\* handlers are set.  The server is the environment: it sends progress
\* frames, {ok: true}, {error} in any order, and the connection can fail or
\* close at any moment.
\*
\* A control frame is a short JSON text, far smaller than a unit of file
\* content: the buffered amount is counted in quarters of a unit, and a
\* control frame as one quarter, so that the control frames of a session
\* together stay below one chunk.
UnitSize == 4
ControlFrameSize == 1
Threshold == maxChunkSize * 2 * UnitSize

Frame(kind, e, content) ==
    [kind |-> kind, entry |-> e, content |-> content,
     size |-> IF kind = "chunk" THEN Len(content) * UnitSize
              ELSE ControlFrameSize]

\* variant: the rest of the file is read as one slice
SocketReadFileWhole(size, read) ==
    IF size - read = 0
    THEN [ok |-> FALSE, content |-> <<>>, read |-> read]
    ELSE [ok |-> TRUE, content |-> Slice(read, size), read |-> size]
\* readFileSlice(file, read) of the socket variant, when the FileReader
\* does not fail
SocketReadFileSlice(size, read) ==
    IF size - read = 0
    THEN [ok |-> FALSE, content |-> <<>>, read |-> read]
    ELSE LET n == Min(maxChunkSize, size - read)
         IN [ok |-> TRUE, content |-> Slice(read, read + n), read |-> read + n]

Loop(p, c, rb, b, sq) ==
    [pc |-> p, cur |-> c, readBytes |-> rb, bufferedAmount |-> b, sent |-> sq]
SetLoop(l) ==
    /\ pc' = l.pc
    /\ cur' = l.cur
    /\ readBytes' = l.readBytes
    /\ bufferedAmount' = l.bufferedAmount
    /\ sent' = l.sent

\* the for loop from entry c on, up to the first await: the header of each
\* entry, and the first read of the first entry that has bytes
RECURSIVE SendEntries(_, _, _)
SendEntries(c, b, sq) ==
    IF c > Len(entries)
    THEN Loop("done", Len(entries), readBytes, b, sq)
    ELSE LET f == Frame("entry", c, <<>>) IN
         IF entries[c] > 0
         THEN Loop("read", c, 0, b + f.size, Append(sq, f))
         ELSE SendEntries(c + 1, b + f.size, Append(sq, f))

\* socket.bufferedAmount > maxChunkSize * 2
OverThreshold(b) == b > Threshold

\* the while loop of lines 493-496 and what follows when it is left, up
\* to the next await
AfterChunk(rb, b, sq) ==
    IF OverThreshold(b)
    THEN Loop("poll", cur, rb, b, sq)
    ELSE IF rb < entries[cur]
    THEN Loop("read", cur, rb, b, sq)
    ELSE SendEntries(cur + 1, b, sq)

\* variant: a settled promise is settled again
SettleAgain(state, to) == to
\* deferredUpload.resolve / reject: a settled promise stays as it is
SettleDeferred(state, to) == IF state = "pending" THEN to ELSE state

RejectUpload(err) ==
    /\ deferredUpload' = SettleDeferred(deferredUpload, "rejected")
    /\ error' = IF deferredUpload' # deferredUpload THEN err ELSE error
ResolveUpload ==
    /\ deferredUpload' = SettleDeferred(deferredUpload, "resolved")
    /\ error' = IF deferredUpload' # deferredUpload THEN "none" ELSE error

\* socket.close()
CloseSocket(rs) == IF rs \in {0, 1} THEN 2 ELSE rs

\* what no step of the socket session changes
socketFrame == <<entries, id, someAppendFailed, promises, uploaded, doneWork,
                 indexVars, serverVars, ncalls, calls, closed, cancelOpenId,
                 firstFailure, ackedBytes>>

Event(kind) == firstEvent' = IF firstEvent = "none" THEN kind ELSE firstEvent

\* catch (e) { deferredUpload.reject(e); if (socket.readyState === 1) ... }
Catch(err) ==
    /\ pc' = "failed"
    /\ RejectUpload(err)
    /\ readyState' = IF readyState = 1 THEN CloseSocket(readyState)
                     ELSE readyState
    /\ UNCHANGED <<cur, readBytes, bufferedAmount, sent>>

\* socket.onopen: the total, then the for loop up to its first await
SocketOpen ==
    /\ pc = "connecting"
    /\ readyState = 0
    /\ readyState' = 1
    /\ LET f == Frame("total", 0, <<>>) IN
       SetLoop(SendEntries(1, bufferedAmount + f.size, Append(sent, f)))
    /\ UNCHANGED <<cancelled, error, reports, deferredUpload, nframes,
                   firstEvent, faults, socketFrame>>

\* await readFileSlice resolves: lines 490-497 up to the next await
SocketReadOk ==
    /\ pc = "read"
    /\ LET r == SocketReadFileSlice(entries[cur], readBytes)
           f == Frame("chunk", cur, r.content)
       IN
       /\ r.ok
       /\ IF CheckCancelled
          THEN Catch("cancelled")
          ELSE /\ SetLoop(AfterChunk(r.read, bufferedAmount + f.size,
                                     Append(sent, f)))
               /\ UNCHANGED <<error, deferredUpload, readyState>>
    /\ UNCHANGED <<cancelled, reports, nframes, firstEvent, faults,
                   socketFrame>>

\* reader.onerror: await readFileSlice rejects
SocketReadFail ==
    /\ pc = "read"
    /\ faults < MaxFaults
    /\ faults' = faults + 1
    /\ Catch("ReadFailure")
    /\ UNCHANGED <<cancelled, reports, nframes, firstEvent, socketFrame>>

\* the timeout of line 494 fires: checkCancelled, then the while condition
Poll ==
    /\ pc = "poll"
    /\ IF CheckCancelled
       THEN Catch("cancelled")
       ELSE /\ SetLoop(AfterChunk(readBytes, bufferedAmount, sent))
            /\ UNCHANGED <<error, deferredUpload, readyState>>
    /\ UNCHANGED <<cancelled, reports, nframes, firstEvent, faults,
                   socketFrame>>

\* the browser has transmitted some of the buffered bytes; once the session
\* has ended nothing reads socket.bufferedAmount any more
Drain(n) ==
    /\ readyState \in {1, 2}
    /\ pc \in {"read", "poll"}
    /\ n \in 1..bufferedAmount
    /\ bufferedAmount' = bufferedAmount - n
    /\ UNCHANGED <<pc, cur, readBytes, cancelled, error, reports, readyState,
                   sent, deferredUpload, nframes, firstEvent, faults,
                   socketFrame>>

\* the frames a server can send: {done: d} with d zero or not, {ok: true}
\* and {error: string}
DoneValues == {0, Total}
ServerFrames ==
    {[kind |-> "done", done |-> d] : d \in DoneValues}
        \cup {[kind |-> "ok", done |-> 0], [kind |-> "error", done |-> 0]}

\* socket.onmessage
SocketMessage(response) ==
    /\ readyState \in {1, 2}
    /\ nframes < MaxFrames
    /\ nframes' = nframes + 1
    /\ IF response.kind = "done" /\ response.done # 0
       THEN /\ reports' = Append(reports, response.done)
            /\ UNCHANGED <<deferredUpload, error, readyState, firstEvent>>
       ELSE /\ IF response.kind = "ok"
               THEN ResolveUpload /\ Event("ok")
               ELSE IF response.kind = "error"
               THEN RejectUpload("ServerError") /\ Event("error")
               ELSE UNCHANGED <<deferredUpload, error, firstEvent>>
            /\ readyState' = CloseSocket(readyState)
            /\ UNCHANGED reports
    /\ UNCHANGED <<pc, cur, readBytes, cancelled, bufferedAmount, sent, faults,
                   socketFrame>>

\* the connection fails: the browser closes the socket and fires error,
\* then close; socket.onerror = deferredUpload.reject runs first
SocketError ==
    /\ readyState \in {0, 1, 2}
    /\ readyState' = 3
    /\ RejectUpload("SocketError")
    /\ Event("socketError")
    /\ UNCHANGED <<pc, cur, readBytes, cancelled, reports, bufferedAmount,
                   sent, nframes, faults, socketFrame>>

\* socket.onclose: the connection is closed, by either side
SocketClosed ==
    /\ readyState \in {0, 1, 2}
    /\ readyState' = 3
    /\ RejectUpload("SocketClosed")
    /\ Event("close")
    /\ UNCHANGED <<pc, cur, readBytes, cancelled, reports, bufferedAmount,
                   sent, nframes, faults, socketFrame>>

\* the user cancels the progress: the listener of lines 507-512
CancelSocket ==
    /\ deferredUpload = "pending"
    /\ ~cancelled
    /\ cancelled' = TRUE
    /\ RejectUpload("cancelled")
    /\ Event("cancel")
    /\ readyState' = IF readyState = 1 THEN CloseSocket(readyState)
                     ELSE readyState
    /\ UNCHANGED <<pc, cur, readBytes, reports, bufferedAmount, sent, nframes,
                   faults, socketFrame>>

\* the files of a session: empty, of a full chunk and a shorter one, and
\* of two full chunks, which fill the buffer up to the threshold
SocketFileSizes == {0, maxChunkSize + 1, 2 * maxChunkSize}
SocketEntryLists == UNION {[1..n -> SocketFileSizes] : n \in 1..MaxEntries}

InitSocket ==
    /\ entries \in SocketEntryLists
    /\ pc = "connecting"
    /\ cur = 0
    /\ id = 0
    /\ readBytes = 0
    /\ someAppendFailed = "none"
    /\ promises = <<>>
    /\ cancelled = FALSE
    /\ error = "none"
    /\ uploaded = <<>>
    /\ doneWork = 0
    /\ reports = <<>>
    /\ IndexerIdle
    /\ readyState = 0
    /\ bufferedAmount = 0
    /\ sent = <<>>
    /\ deferredUpload = "pending"
    /\ nframes = 0
    /\ firstEvent = "none"
    /\ InitServerState
    /\ faults = 0
    /\ ncalls = 0
    /\ calls = <<>>
    /\ closed = {}
    /\ cancelOpenId = 0
    /\ firstFailure = "none"
    /\ ackedBytes = 0

NextSocket ==
    \/ SocketOpen
    \/ SocketReadOk
    \/ SocketReadFail
    \/ Poll
    \/ \E n \in 1..bufferedAmount : Drain(n)
    \/ \E response \in ServerFrames : SocketMessage(response)
    \/ SocketError
    \/ SocketClosed
    \/ CancelSocket

SpecSocket == InitSocket /\ [][NextSocket]_vars

\* ------------------------------------------------------------------ claims
EntryIds == 1..Len(entries)
RenameOps == {"renameOpen", "renameAppend"}

\* C1 (as claimed): whenever a file exists at the destination path of an
\* entry, its length is the full size of the entry.
C1_NoPartialFile ==
    \A e \in EntryIds :
        files[FsPath(e)].exists => Len(files[FsPath(e)].data) = entries[e]

\* C2: the destination file of an entry changes only in a step that
\* completes the rename of a call carrying done = true, and only after the
\* session has dispatched a call with done = true for that entry.
C2_RenameOnlyAfterFinalDispatched ==
    [][\A e \in EntryIds :
        files'[FsPath(e)] # files[FsPath(e)] =>
            /\ \E k \in 1..Len(calls[e]) : calls[e][k].done
            /\ \E t \in tasks \ tasks' :
                  t.done /\ t.op \in RenameOps /\ objs[t.id].fsPath = FsPath(e)]_vars

C2_Witness ==
    \E e \in EntryIds :
        /\ files[FsPath(e)].exists
        /\ files[FsPath(e)].data = Slice(0, entries[e])
        /\ Len(calls[e]) = 3
        /\ ~calls[e][1].done /\ ~calls[e][2].done /\ calls[e][3].done

\* C3 (as claimed): when doUpload resolves, the uploaded list holds the
\* destination URI of every indexed entry, in order.
C3_UploadedListsEveryUri ==
    pc = "resolved" => uploaded = [e \in EntryIds |-> e]

\* the calls expected for a file of a given size, in closed form
NumCalls(size) ==
    IF size = 0 THEN 1 ELSE (size + maxChunkSize - 1) \div maxChunkSize
ExpectedCalls(size) ==
    [k \in 1..NumCalls(size) |->
        Call(IF k = 1 THEN "open" ELSE "append",
             Slice((k - 1) * maxChunkSize, Min(k * maxChunkSize, size)),
             k = NumCalls(size))]

\* C4: the calls dispatched for an entry are at every moment a prefix of:
\* one open, then appends, max(1, ceil(size / maxChunkSize)) calls in all,
\* the k-th carrying the bytes [(k-1) * maxChunkSize, min(k * maxChunkSize,
\* size)) and done exactly on the last; an entry that completed without
\* failure or cancellation has had all of them dispatched.
C4_ChunkCalls ==
    \A e \in EntryIds :
        /\ Len(calls[e]) <= NumCalls(entries[e])
        /\ calls[e] = SubSeq(ExpectedCalls(entries[e]), 1, Len(calls[e]))
        /\ (e < cur \/ pc = "resolved") => Len(calls[e]) = NumCalls(entries[e])

C4_Witness ==
    /\ pc = "resolved"
    /\ Len(entries) = 2
    /\ entries[1] = 0 /\ Len(calls[1]) = 1
    /\ entries[2] = 2 * maxChunkSize + 1 /\ Len(calls[2]) = 3

\* C5: an append with an id that open never handed out rejects with "not
\* found" and changes neither the registry, nor the pending file-system
\* operations, nor any file.
C5_AppendUnknownId ==
    [][\A i \in Ids, c \in Contents, d \in BOOLEAN :
        (ApiAppend(i, c, d) /\ i \notin 1..(nextId - 1)) =>
            /\ uploads' = uploads
            /\ objs' = objs
            /\ tasks' = tasks
            /\ files' = files
            /\ acks' = Append(acks, Ack("append", i, ncalls + 1, d, FALSE, "NotFound"))]_vars

C5_Witness ==
    \E k \in 1..Len(acks) :
        /\ acks[k].op = "append" /\ acks[k].id = BogusId
        /\ ~acks[k].ok /\ acks[k].err = "NotFound"
        /\ uploads # {}

\* C6 (as claimed): an append on an id that was closed, or finalized by an
\* earlier call with isFinal, rejects with "not found" and starts no write.
C6_AppendAfterCloseNotFound ==
    [][\A i \in Ids, c \in Contents, d \in BOOLEAN :
        (ApiAppend(i, c, d) /\ (i \in closed \/ objs[i].renamed)) =>
            /\ tasks' = tasks
            /\ acks' = Append(acks, Ack("append", i, ncalls + 1, d, FALSE, "NotFound"))]_vars

\* C7: no close call, and no unlink that a close started, changes a file
\* that exists at a destination path; and every close call returns
\* normally, whatever was called before it.
C7_CloseIdempotent ==
    [][((\E i \in Ids : ApiClose(i)) \/ (\E t \in tasks : UnlinkDone(t))) =>
        /\ \A u \in Uris :
              files[FsPath(u)].exists => files'[FsPath(u)] = files[FsPath(u)]
        /\ \A k \in 1..Len(acks') : acks'[k].op = "close" => acks'[k].ok]_vars

C7_Witness ==
    \E j, k \in 1..Len(acks) :
        /\ j < k
        /\ acks[j].op = "close" /\ acks[k].op = "close"
        /\ acks[j].id = acks[k].id
        /\ objs[acks[j].id].renamed
        /\ files[objs[acks[j].id].fsPath].exists
        /\ tasks = {}

\* C8 (as claimed): once the session has ended an entry by an append
\* failure or by cancellation, its close was handled and no operation for
\* the id is in flight any more, no file exists at the temporary path.
C8_NoOrphanTemp ==
    (/\ pc = "rejected" /\ error # "ReadFailure"
     /\ id # 0 /\ id \in closed
     /\ ~\E t \in tasks : t.id = id)
        => ~files[UploadPath(id)].exists

\* C9 (as claimed): once an open or append with isFinal has returned
\* normally, the registry no longer holds its id.
C9_FinalizeEvicts ==
    \A k \in 1..Len(acks) :
        (acks[k].op \in {"open", "append"} /\ acks[k].ok /\ acks[k].done)
            => acks[k].id \notin uploads

\* C10 (as claimed): cancellation requested after the open of a multi-chunk
\* entry has returned and before its first append: the session rejects with
\* the cancellation error, close was dispatched for the id, no file is at
\* the destination, and the temporary file is gone once the unlink is done.
C10_CancelAfterOpenAsClaimed ==
    (cancelOpenId # 0 /\ pc = "rejected") =>
        /\ error = "cancelled"
        /\ cancelOpenId \in closed
        /\ ~files[FsPath(cur)].exists
        /\ (~\E t \in tasks : t.id = cancelOpenId)
              => ~files[UploadPath(cancelOpenId)].exists

\* C10 (amended): in that case the session never resolves and dispatches no
\* append for the entry; it rejects with the cancellation error, or with the
\* read error when the read that was pending fails; close was dispatched for
\* the id, no file is at the destination, and the temporary file is gone
\* once the unlink is done.
C10_CancelAfterOpen ==
    cancelOpenId # 0 =>
        /\ pc # "resolved"
        /\ Len(calls[cur]) = 1
        /\ pc = "rejected" =>
            /\ error \in {"cancelled", "ReadFailure"}
            /\ cancelOpenId \in closed
            /\ ~files[FsPath(cur)].exists
            /\ (~\E t \in tasks : t.id = cancelOpenId)
                  => ~files[UploadPath(cancelOpenId)].exists

C10_Witness ==
    /\ cancelOpenId # 0
    /\ pc = "rejected"
    /\ error = "cancelled"
    /\ cancelOpenId \in closed
    /\ tasks = {}
    /\ ~files[UploadPath(cancelOpenId)].exists

\* a step in which doUpload calls readFileSlice on a file that has bytes
StartsRead ==
    /\ pc' = "read"
    /\ entries[cur'] > 0
    /\ <<pc, cur, readBytes>> # <<pc', cur', readBytes'>>

\* C11 (as claimed): once cancellation is requested, the session starts no
\* file read and dispatches no open or append any more; and when it rejects
\* with an entry open, the close of that entry has been dispatched.
C11_NoWorkAfterCancel ==
    [][cancelled =>
        /\ ~StartsRead
        /\ calls' = calls
        /\ (pc # "rejected" /\ pc' = "rejected" /\ id' # 0) => id' \in closed']_vars

\* C12: once the session has observed a failed append acknowledgement, it
\* dispatches no call any more (no append for the entry, no open for a later
\* entry), it never resolves, and its next step rejects the upload promise.
C12_AppendFailureStops ==
    [][someAppendFailed # "none" =>
        /\ calls' = calls
        /\ someAppendFailed' # "none"
        /\ pc' # "resolved"
        /\ pc' # pc => pc' = "rejected"]_vars

C12_Witness ==
    /\ pc = "rejected"
    /\ someAppendFailed = "WriteFailure"
    /\ error = "WriteFailure"
    /\ cur < Len(entries)
    /\ Len(calls[cur]) = 2
    /\ NumCalls(entries[cur]) = 3
    /\ calls[cur + 1] = <<>>

\* C13: the session is the only caller, so the open of entry e is handed
\* id e.  An append of an entry is dispatched only after the open of the
\* entry has returned its id and before the close of that id; the open of
\* an entry is dispatched only after the close of every earlier entry; and
\* at most one id has been opened and not yet had its close dispatched.
C13_DispatchOrder ==
    [][/\ \A e \in EntryIds :
            calls'[e] # calls[e] =>
                /\ e = cur
                /\ calls'[e] = Append(calls[e], calls'[e][Len(calls'[e])])
                /\ IF calls[e] = <<>>
                   THEN /\ calls'[e][1].op = "open"
                        /\ nextId' - 1 = e
                        /\ \A n \in 1..(e - 1) : n \in closed
                   ELSE /\ calls'[e][Len(calls'[e])].op = "append"
                        /\ id = e
                        /\ id \notin closed
       /\ Cardinality((1..(nextId' - 1)) \ closed') <= 1]_vars

C13_Witness ==
    /\ pc = "resolved"
    /\ Len(entries) = 2
    /\ Len(calls[1]) = 3 /\ Len(calls[2]) = 2
    /\ closed = {1, 2}

\* C14: from the step in which the session rejects on entry k, no step
\* (the close of entry k and the unlink it starts included) changes the
\* destination file of an entry before k.
C14_EarlierEntriesKept ==
    [][pc' = "rejected" =>
        \A e \in 1..(cur - 1) : files'[FsPath(e)] = files[FsPath(e)]]_vars

C14_Witness ==
    /\ pc = "rejected"
    /\ cur = 2
    /\ files[FsPath(1)] = File(Slice(0, entries[1]))
    /\ entries[1] > maxChunkSize
    /\ id = 2 /\ id \in closed
    /\ tasks = {}
    /\ ~files[UploadPath(id)].exists

\* the step in which the open of the current entry returns its id
OpenReturns == pc = "open" /\ pc' # "open" /\ Head(acks).ok
\* the step in which the current entry completes
EntryCompletes ==
    /\ pc \in {"open", "waitAll"}
    /\ cur' = cur + 1 \/ pc' = "resolved"
\* the reports of a step
NewReports == SubSeq(reports', Len(reports) + 1, Len(reports'))

\* C15 (as claimed): the step in which an open returns reports the bytes
\* read so far, the step in which an entry completes reports the sizes of
\* the entries completed, and when the upload resolves the last report has
\* done = total, the sum of the sizes of the entries.
C15_ReportsAsClaimed ==
    [][/\ OpenReturns =>
            \E k \in 1..Len(NewReports) : NewReports[k] = doneWork + readBytes
       /\ EntryCompletes =>
            \E k \in 1..Len(NewReports) :
                NewReports[k] = Sum(SubSeq(entries, 1, cur))
       /\ (pc' = "resolved" /\ reports' # <<>>) =>
            reports'[Len(reports')] = Total]_vars

\* C15 (amended): as above, for an open that returns while no cancellation
\* is requested.
C15_ProgressReports ==
    [][/\ (OpenReturns /\ ~cancelled) =>
            \E k \in 1..Len(NewReports) : NewReports[k] = doneWork + readBytes
       /\ EntryCompletes =>
            \E k \in 1..Len(NewReports) :
                NewReports[k] = Sum(SubSeq(entries, 1, cur))
       /\ (pc' = "resolved" /\ reports' # <<>>) =>
            reports'[Len(reports')] = Total]_vars

C15_Witness ==
    /\ pc = "resolved"
    /\ entries = <<3, 1>>
    /\ reports = <<0, 2, 3, 3, 3, 4, 4, 4>>

\* C20 (as claimed): when the session rejects after it has observed failed
\* append acknowledgements, and not because a read failed, the error it
\* rejects with is the first of the failures it observed.
C20_FirstAppendFailureWins ==
    (pc = "rejected" /\ firstFailure # "none" /\ error # "ReadFailure")
        => error = firstFailure

\* the path of a node: the names from the dropped item down to the node
RECURSIVE PathOf(_)
PathOf(n) ==
    IF tree[n].parent = 0
    THEN <<tree[n].name>>
    ELSE Append(PathOf(tree[n].parent), tree[n].name)
FileNodes == {n \in Nodes : tree[n].kind = "file"}

\* C16: when indexing has completed and no cancellation was requested, the
\* destination URIs of the entries are the paths of the files of the tree
\* resolved against the target, each once: none for a directory, none
\* missing, none twice, however the listings were split into batches.
C16_IndexedUrisMirrorTree ==
    (IndexPromise = "resolved" /\ ~cancelled) =>
        /\ {entries[k].uri : k \in 1..Len(entries)}
              = {TargetUri \o PathOf(f) : f \in FileNodes}
        /\ Len(entries) = Cardinality(FileNodes)

C16_Witness ==
    /\ IndexPromise = "resolved" /\ ~cancelled
    /\ Len(tree) = 3
    /\ tree[1].kind = "dir" /\ tree[2].kind = "dir" /\ tree[3].kind = "file"
    /\ tree[2].parent = 1 /\ tree[3].parent = 2
    /\ entries = <<[uri |-> <<tree[1].name, tree[2].name, tree[3].name>>,
                   size |-> FileSize(3)]>>

\* C17 (as claimed): once cancellation is requested while a drop is being
\* indexed, the indexing promise does not resolve, and no entry is removed
\* from the context.
C17_CancelRejectsIndexing ==
    [][cancelled' =>
        /\ IndexPromise' # "resolved"
        /\ Len(entries') >= Len(entries)
        /\ SubSeq(entries', 1, Len(entries)) = entries]_vars

\* C18 (as claimed): a read is pending, and a frame is sent after the
\* socket has opened, only while the buffered amount is at most twice the
\* chunk size; the session leaves a wait only when the buffer has drained
\* to that; and once cancelled, a waiting session sends nothing more.
C18_BackPressure ==
    [][/\ pc' = "read" => bufferedAmount' <= Threshold
       /\ (pc # "connecting" /\ sent' # sent) => bufferedAmount <= Threshold
       /\ (pc = "poll" /\ pc' \notin {"poll", "failed"})
             => bufferedAmount <= Threshold
       /\ (pc = "poll" /\ cancelled)
             => (sent' = sent /\ pc' \in {"poll", "failed"})]_vars

\* C19: the upload promise, once settled, stays as it is; it is resolved
\* only when the first of {ok: true} frame, {error} frame, socket error,
\* close and cancellation was an {ok: true} frame; and when the first of
\* them was any of the others, the promise is rejected.
C19_SettledOnce ==
    [][/\ deferredUpload # "pending" =>
            (deferredUpload' = deferredUpload /\ error' = error)
       /\ deferredUpload' = "resolved" => firstEvent' = "ok"
       /\ firstEvent' \in {"error", "socketError", "close", "cancel"}
             => deferredUpload' = "rejected"]_vars

C19_Witness ==
    /\ deferredUpload = "resolved"
    /\ firstEvent = "ok"
    /\ nframes = 2
    /\ readyState = 3
    /\ pc = "done"
    /\ Len(entries) = 2

\* C21 (as claimed): the done value of every progress report is at most
\* the sum of the sizes of the chunks whose open or append the server has
\* acknowledged with success so far in this call.
C21_DoneCountsAckedBytes ==
    [][\A k \in 1..Len(NewReports) : NewReports[k] <= ackedBytes']_vars

\* C25 (as claimed): the done values of the progress reports of an upload
\* call never decrease from one report to the next, and none exceeds total.
C25_ReportsMonotone ==
    /\ \A k \in 1..(Len(reports) - 1) : reports[k] <= reports[k + 1]
    /\ \A k \in 1..Len(reports) : reports[k] <= Total

\* the part of C25 that the code keeps: no report exceeds total
ReportsWithinTotal == \A k \in 1..Len(reports) : reports[k] <= Total

\* positions of the entry headers among the frames sent, the number of
\* headers sent up to a position, and the bytes of the binary frames sent
\* after the j-th header and before the next one
HeaderPos == {p \in 1..Len(sent) : sent[p].kind = "entry"}
Headers(p) == Cardinality({q \in HeaderPos : q <= p})
RECURSIVE SentBytes(_, _)
SentBytes(j, p) ==
    IF p = 0 THEN 0
    ELSE SentBytes(j, p - 1) +
         (IF sent[p].kind = "chunk" /\ Headers(p) = j
          THEN Len(sent[p].content) ELSE 0)

\* C22: the {total} frame is the first frame and the only one of its kind;
\* the headers are sent in index order of the entries; every binary frame
\* is at most a chunk long; the binary frames between the header of an
\* entry and the next header sum to the size of that entry (to no more,
\* while the entry is the last one sent and the loop is running); and
\* when the loop has ended every entry has its header.
C22_FrameOrder ==
    /\ \A p \in 1..Len(sent) : (sent[p].kind = "total") <=> (p = 1)
    /\ \A p \in HeaderPos : sent[p].entry = Headers(p)
    /\ \A p \in 1..Len(sent) :
           sent[p].kind = "chunk" => Len(sent[p].content) <= maxChunkSize
    /\ \A j \in 1..Cardinality(HeaderPos) :
           /\ j <= Len(entries)
           /\ SentBytes(j, Len(sent)) <= entries[j]
           /\ (j < Cardinality(HeaderPos) \/ pc = "done")
                 => SentBytes(j, Len(sent)) = entries[j]
    /\ pc = "done" => Cardinality(HeaderPos) = Len(entries)

C22_Witness ==
    /\ pc = "done"
    /\ entries = <<0, 2 * maxChunkSize>>
    /\ ~cancelled
    /\ deferredUpload = "pending"
    /\ [k \in 1..Len(sent) |-> sent[k].kind] =
           <<"total", "entry", "entry", "chunk", "chunk">>

\* a record of the registry that is opened, not finalized and not closed
Live(i) == i \in uploads /\ ~objs[i].renamed /\ i \notin closed

\* C23 (as claimed): no two live records of the registry have the same
\* destination path.
C23_OneLiveRecordPerDestination ==
    \A i, j \in uploads :
        (Live(i) /\ Live(j) /\ objs[i].fsPath = objs[j].fsPath) => i = j

\* the session was rejected by the failure of the open of its current
\* entry: it has no id, and the upload of that open is the last one made
OpenFailed ==
    /\ pc = "rejected"
    /\ id = 0
    /\ error \in {"WriteFailure", "RenameFailure"}

\* C24 (as claimed): once the open of an entry has failed on the server
\* after registering the record and nothing is in flight any more, the
\* registry does not hold that record and no file is at its temporary path.
C24_FailedOpenLeavesNothing ==
    (OpenFailed /\ tasks = {} /\ acks = <<>>)
        => /\ (nextId - 1) \notin uploads
           /\ ~files[UploadPath(nextId - 1)].exists

\* the part of C24 about the temporary file of a single-chunk upload whose
\* rename failed
NoTempAfterFailedRename ==
    (OpenFailed /\ error = "RenameFailure" /\ tasks = {} /\ acks = <<>>)
        => ~files[UploadPath(nextId - 1)].exists

\* the step in which socket.onmessage handles a progress frame {done: d}
ProgressFrame(d) == SocketMessage([kind |-> "done", done |-> d])

\* C26 (as claimed): a progress frame {done: d}, for every d including 0,
\* adds the report of d and nothing else: the socket keeps its state and
\* the upload promise stays as it is.
C26_ProgressFrameOnlyReports ==
    [][\A d \in DoneValues :
         ProgressFrame(d) => /\ reports' = Append(reports, d)
                             /\ readyState' = readyState
                             /\ deferredUpload' = deferredUpload]_vars

\* the part of C26 that the code keeps: frames with d > 0
PositiveProgressFrameOnlyReports ==
    [][\A d \in DoneValues \ {0} :
         ProgressFrame(d) => /\ reports' = Append(reports, d)
                             /\ readyState' = readyState
                             /\ deferredUpload' = deferredUpload]_vars

\* a successful read of a non-empty file moves the read offset
ReadAdvances ==
    (pc = "read" /\ cur' = cur /\ readBytes' # readBytes)
        => (readBytes < readBytes' /\ readBytes' <= entries[cur])

\* C27: every successful read of a non-empty file moves the read offset
\* up, to at most the file size; and when every file read and every server
\* call completes, the upload promise is eventually resolved or rejected.
C27_Terminates ==
    /\ [][ReadAdvances]_vars
    /\ <>(pc \in {"resolved", "rejected"})

C27_Witness ==
    /\ pc = "resolved"
    /\ entries = <<2 * maxChunkSize + 1, 0>>
    /\ Len(calls[1]) = 3
    /\ Len(calls[2]) = 1
    /\ tasks = {}
    /\ acks = <<>>

====
